---- MODULE Spec2Model ----
(***************************************************************************)
(* Model of cluster/node/actor.go: one Actor (state, route and event       *)
(* tables, mailbox, control queue fnChan, bind set, RWMutex rw), its       *)
(* dispatch worker, the callers of Next / Invoke / AddRouteHandler /       *)
(* AddEventHandler / Destroy, and the Scheduler's relation table that      *)
(* Destroy clears.  Context and Scheduler are not part of the two source   *)
(* files; their operations follow the written specification.               *)
(*                                                                         *)
(* Granularity.  Every action is one atomic step of one goroutine.  Steps  *)
(* of the same goroutine are merged only where the merged step commutes    *)
(* with every step of the other goroutines:                                *)
(*   - rw.RLock() and state.Load() (and, in Next, incrVersion and Cancel)  *)
(*     form the "begin" step of a call;                                    *)
(*   - a channel send and the deferred rw.RUnlock() form the "send" step;  *)
(*   - the mailbox receive and ctx.loadVersion() form one worker step;     *)
(*   - rw.Lock() acquisition and close(mailbox); close(fnChan) and the     *)
(*     deferred rw.Unlock().                                               *)
(* The holders of rw are derived from the callers' program counters.       *)
(***************************************************************************)
EXTENDS Integers, Sequences, FiniteSets, TLC

\* ---------------------------------------------------------------- bounds
MaxCalls == 4       \* calls the callers make in one behaviour
MailboxCap == 2     \* capacity of the mailbox channel
FnChanCap == 1      \* capacity of the control queue fnChan

\* ------------------------------------------------------------- universes
Procs == {"p1", "p2"}             \* caller goroutines
Callers == Procs \cup {"p3"}      \* with a third one, for the rw queueing
Ctxs == {"c1", "c2"}              \* Context objects handed to Next
Routes == {10}
Events == {1}
Handlers == {"h1", "h2"}
EventHandlers == {"g1"}
Uids == {41, 42}
Actors == {"A", "B", "D"}         \* A is the actor modelled in full; B and D
                                  \* are other actors of the same Scheduler
Kinds == {"room", "hall"}
None == "none"

\* src/cluster/node/actor.go:12-16
unstart == "unstart"
started == "started"
destroyed == "destroyed"

\* Context.Kind(): c1 is a Message for route 10, c2 an Event for event 1.
CtxKind(c) == IF c = "c1" THEN "Message" ELSE "Event"
CtxKey(c) == IF c = "c1" THEN 10 ELSE 1

\* Processor.Kind() of an actor: A and B are of kind "room", D of kind "hall".
Kind(a) == IF a = "D" THEN "hall" ELSE "room"

VARIABLES
  state,          \* Actor.state of A
  routes,         \* Actor.routes: route -> handler or None
  events,         \* Actor.events: event -> handler or None
  schedRoutes,    \* Scheduler.routes: route -> kind or None
  mailbox,        \* buffered items of Actor.mailbox
  mailboxClosed,
  fnChan,         \* buffered items of Actor.fnChan
  fnClosed,
  binds,          \* Actor.binds of each actor
  relations,      \* Scheduler.relations: uid -> kind -> entry or NoEntry
  version,        \* Context.version of each context
  pc,             \* position of each caller
  arg,            \* arguments of the call a caller is in
  wpc,            \* position of the dispatch worker
  wCur,           \* what the worker is processing: the item received, the
                  \* version loaded, and notes on the dispatch (stamp: the
                  \* version the delivery's Next set; queuedAfter: a later
                  \* delivery of the context was buffered at the receive; hv,
                  \* superseded: the version moved while the handler ran)
  raced,          \* threads whose current table access overlapped another
  fault,          \* runtime panic / fatal error that ended the process
  calls,          \* calls begun so far: n in all, destroy of them Destroy,
                  \* late: some call began in state destroyed
  done,           \* effects observed so far (counters)
  seqs,           \* channel bookkeeping: items enqueued / dequeued so far
  proxy           \* a call of Proxy.Response or Proxy.Deliver: the node's id,
                  \* the arguments, the Link's answer and what the call did

vars == <<state, routes, events, schedRoutes, mailbox, mailboxClosed, fnChan,
          fnClosed, binds, relations, version, pc, arg, wpc, wCur, raced,
          fault, calls, done, seqs, proxy>>

chanVars == <<mailbox, mailboxClosed, fnChan, fnClosed>>
tableVars == <<routes, events, schedRoutes>>
schedVars == <<binds, relations>>
workerVars == <<wpc, wCur>>

NoArg == [op |-> None]
NoEntry == [actor |-> None, born |-> None]
NoCur == [op |-> None]
NoProxy == [op |-> None]

\* The actor as spawn builds it.
InitActor ==
  /\ state = unstart
  /\ routes = [r \in Routes |-> None]
  /\ events = [e \in Events |-> None]
  /\ schedRoutes = [r \in Routes |-> None]
  /\ mailbox = <<>>
  /\ mailboxClosed = FALSE
  /\ fnChan = <<>>
  /\ fnClosed = FALSE
  /\ binds = [a \in Actors |-> {}]
  /\ relations = [u \in Uids |-> [k \in Kinds |-> NoEntry]]
  /\ version = [c \in Ctxs |-> 0]
  /\ pc = [p \in Callers |-> "idle"]
  /\ arg = [p \in Callers |-> NoArg]
  /\ wpc = "select"
  /\ wCur = NoCur
  /\ raced = {}
  /\ fault = None
  /\ calls = [n |-> 0, destroy |-> 0, late |-> FALSE, ready |-> FALSE]
  /\ done = [procDestroy |-> 0, unbind |-> 0, closeMailbox |-> 0,
             closeFn |-> 0, destroyReturned |-> 0, fnFaults |-> 0,
             defers |-> [c \in Ctxs |-> 0], recycles |-> [c \in Ctxs |-> 0]]
  /\ seqs = [enqM |-> 0, deqM |-> 0, enqF |-> 0, deqF |-> 0]

Init == InitActor /\ proxy = NoProxy

\* ------------------------------------------------------------- rw (RWMutex)
\* Readers if the callers sent without holding rw.
Readers_NoRLock == {}

\* Callers between RLock and RUnlock.
Readers ==
  {p \in Callers : pc[p] \in {"next_send", "inv_send", "ar_write", "ar_send",
                            "ae_write", "ae_send"}}

\* A goroutine has called rw.Lock(): it waits for the readers or holds rw.
WriterPending ==
  \/ \E p \in Callers : pc[p] \in {"d_wait", "d_closeF"}
  \/ wpc = "hd_wait"

\* sync.RWMutex: RLock blocks while a writer holds or waits for the lock.
CanRLock == ~WriterPending

Running == fault = None

CanCall(p) == Running /\ pc[p] = "idle" /\ calls.n < MaxCalls

\* `calls` after a call of Next, Invoke, AddRouteHandler or AddEventHandler
\* begins.
Called == [calls EXCEPT !.n = @ + 1, !.late = @ \/ (state = destroyed)]

\* `calls` after a call of Destroy begins.
CalledDestroy ==
  [calls EXCEPT !.n = @ + 1, !.destroy = @ + 1,
                !.late = @ \/ (state = destroyed)]

\* ------------------------------------------------------------ table races
\* Threads that are inside a read or a write of the map `t`.
TableAccessors(t) ==
  {p \in Callers : (t = "routes" /\ pc[p] = "ar_write")
                 \/ (t = "events" /\ pc[p] = "ae_write")}
  \cup (IF \/ (wpc = "lookup" /\ t = (IF CtxKind(wCur.ctx) = "Event"
                                      THEN "events" ELSE "routes"))
           \/ (wpc = "fn" /\ wCur.op = "route" /\ t = "routes")
           \/ (wpc = "fn" /\ wCur.op = "event" /\ t = "events")
        THEN {"worker"} ELSE {})

\* `raced` after thread `self` enters an access of table t.
EnterAccess(self, t) ==
  IF TableAccessors(t) \ {self} # {}
  THEN raced \cup {self} \cup TableAccessors(t)
  ELSE raced

\* Outcomes of a table access by `self`: a data race on a Go map is undefined
\* behaviour, so an access that overlapped another one may take effect, be
\* lost, or end the process ("fatal error: concurrent map writes").
AccessOutcomes(self) ==
  IF self \in raced THEN {"applied", "lost", "fatal"} ELSE {"applied"}

Bump(f) == [done EXCEPT ![f] = @ + 1]

\* ------------------------------------------------------------------- Next
\* actor.go:104-114: RLock, state check, incrVersion, Cancel.  Cancel only
\* signals the context's cancel function; nothing in the actor reads it.
NextBegin(p, c) ==
  /\ CanCall(p)
  /\ CanRLock
  /\ calls' = Called
  /\ IF state # started
     THEN UNCHANGED <<version, pc, arg>>
     ELSE /\ version' = [version EXCEPT ![c] = @ + 1]
          /\ pc' = [pc EXCEPT ![p] = "next_send"]
          /\ arg' = [arg EXCEPT ![p] =
                       [op |-> "msg", ctx |-> c, stamp |-> version[c] + 1]]
  /\ UNCHANGED <<proxy, state, tableVars, chanVars, schedVars, workerVars, raced,
                 fault, done, seqs>>

\* actor.go:116-117: a.mailbox <- ctx, then the deferred RUnlock.  A send on
\* a closed channel panics; a send on a full channel blocks.
NextSend(p) ==
  /\ Running
  /\ pc[p] = "next_send"
  /\ IF mailboxClosed
     THEN /\ fault' = "send on closed channel"
          /\ UNCHANGED <<mailbox, seqs, pc, arg>>
     ELSE /\ Len(mailbox) < MailboxCap
          /\ mailbox' = Append(mailbox,
                          [op |-> "msg", ctx |-> arg[p].ctx,
                           stamp |-> arg[p].stamp, n |-> seqs.enqM + 1])
          /\ seqs' = [seqs EXCEPT !.enqM = @ + 1]
          /\ pc' = [pc EXCEPT ![p] = "idle"]
          /\ arg' = [arg EXCEPT ![p] = NoArg]
          /\ UNCHANGED fault
  /\ UNCHANGED <<proxy, state, tableVars, mailboxClosed, fnChan, fnClosed, schedVars,
                 version, workerVars, raced, calls, done>>

\* ----------------------------------------------- sends on the control queue
\* a.fnChan <- fn, then the deferred RUnlock (actor.go:65, 77-80, 95-97).
SendFn(p) ==
  /\ Running
  /\ IF fnClosed
     THEN /\ fault' = "send on closed channel"
          /\ UNCHANGED <<fnChan, seqs, pc, arg>>
     ELSE /\ Len(fnChan) < FnChanCap
          /\ fnChan' = Append(fnChan,
                         [op |-> arg[p].op, key |-> arg[p].key,
                          handler |-> arg[p].handler, n |-> seqs.enqF + 1])
          /\ seqs' = [seqs EXCEPT !.enqF = @ + 1]
          /\ pc' = [pc EXCEPT ![p] = "idle"]
          /\ arg' = [arg EXCEPT ![p] = NoArg]
          /\ UNCHANGED fault
  /\ UNCHANGED <<proxy, state, tableVars, mailbox, mailboxClosed, fnClosed, schedVars,
                 version, workerVars, raced, calls, done>>

\* ----------------------------------------------------------------- Invoke
\* actor.go:57-63
InvokeBegin(p) ==
  /\ CanCall(p)
  /\ CanRLock
  /\ calls' = Called
  /\ IF state # started
     THEN UNCHANGED <<pc, arg>>
     ELSE /\ pc' = [pc EXCEPT ![p] = "inv_send"]
          /\ arg' = [arg EXCEPT ![p] =
                       [op |-> "invoke", key |-> None, handler |-> None]]
  /\ UNCHANGED <<proxy, state, tableVars, chanVars, schedVars, version, workerVars,
                 raced, fault, done, seqs>>

\* actor.go:65
InvokeSend(p) ==
  /\ pc[p] = "inv_send"
  /\ SendFn(p)

\* -------------------------------------------------------- AddRouteHandler
\* actor.go:69-83: RLock, then the switch on state.Load().
AddRouteHandlerBegin(p, route, handler) ==
  /\ CanCall(p)
  /\ CanRLock
  /\ calls' = Called
  /\ IF state = unstart
     THEN /\ pc' = [pc EXCEPT ![p] = "ar_write"]
          /\ arg' = [arg EXCEPT ![p] =
                       [op |-> "route", key |-> route, handler |-> handler]]
          /\ raced' = EnterAccess(p, "routes")
     ELSE IF state = started
     THEN /\ pc' = [pc EXCEPT ![p] = "ar_send"]
          /\ arg' = [arg EXCEPT ![p] =
                       [op |-> "route", key |-> route, handler |-> handler]]
          /\ UNCHANGED raced
     ELSE UNCHANGED <<pc, arg, raced>>
  /\ UNCHANGED <<proxy, state, tableVars, chanVars, schedVars, version, workerVars,
                 fault, done, seqs>>

\* actor.go:75: a.routes[route] = handler on the caller's goroutine.
AddRouteHandlerWrite(p) ==
  /\ Running
  /\ pc[p] = "ar_write"
  /\ \E o \in AccessOutcomes(p) :
       /\ routes' = IF o = "applied"
                    THEN [routes EXCEPT ![arg[p].key] = arg[p].handler]
                    ELSE routes
       /\ fault' = IF o = "fatal" THEN "concurrent map access" ELSE fault
  /\ raced' = raced \ {p}
  /\ pc' = [pc EXCEPT ![p] = "idle"]
  /\ arg' = [arg EXCEPT ![p] = NoArg]
  /\ UNCHANGED <<proxy, state, events, schedRoutes, chanVars, schedVars, version,
                 workerVars, calls, done, seqs>>

\* actor.go:77-80: the closure is sent on fnChan.
AddRouteHandlerSend(p) ==
  /\ pc[p] = "ar_send"
  /\ SendFn(p)

\* -------------------------------------------------------- AddEventHandler
\* actor.go:87-100
AddEventHandlerBegin(p, event, handler) ==
  /\ CanCall(p)
  /\ CanRLock
  /\ calls' = Called
  /\ IF state = unstart
     THEN /\ pc' = [pc EXCEPT ![p] = "ae_write"]
          /\ arg' = [arg EXCEPT ![p] =
                       [op |-> "event", key |-> event, handler |-> handler]]
          /\ raced' = EnterAccess(p, "events")
     ELSE IF state = started
     THEN /\ pc' = [pc EXCEPT ![p] = "ae_send"]
          /\ arg' = [arg EXCEPT ![p] =
                       [op |-> "event", key |-> event, handler |-> handler]]
          /\ UNCHANGED raced
     ELSE UNCHANGED <<pc, arg, raced>>
  /\ UNCHANGED <<proxy, state, tableVars, chanVars, schedVars, version, workerVars,
                 fault, done, seqs>>

\* actor.go:93: a.events[event] = handler on the caller's goroutine.
AddEventHandlerWrite(p) ==
  /\ Running
  /\ pc[p] = "ae_write"
  /\ \E o \in AccessOutcomes(p) :
       /\ events' = IF o = "applied"
                    THEN [events EXCEPT ![arg[p].key] = arg[p].handler]
                    ELSE events
       /\ fault' = IF o = "fatal" THEN "concurrent map access" ELSE fault
  /\ raced' = raced \ {p}
  /\ pc' = [pc EXCEPT ![p] = "idle"]
  /\ arg' = [arg EXCEPT ![p] = NoArg]
  /\ UNCHANGED <<proxy, state, routes, schedRoutes, chanVars, schedVars, version,
                 workerVars, calls, done, seqs>>

\* actor.go:95-97
AddEventHandlerSend(p) ==
  /\ pc[p] = "ae_send"
  /\ SendFn(p)

\* ------------------------------------------------------------------ spawn
\* Scheduler.spawn: the actor is built in `unstart`, its worker is started,
\* then the state moves to `started`.  `ready` notes whether every
\* registration begun before had returned, leaving a handler for every route.
Start ==
  /\ Running
  /\ state = unstart
  /\ state' = started
  /\ calls' = [calls EXCEPT !.ready = /\ \A p \in Callers : pc[p] = "idle"
                                      /\ \A r \in Routes : routes[r] # None]
  /\ UNCHANGED <<proxy, tableVars, chanVars, schedVars, version, pc, arg, workerVars,
                 raced, fault, done, seqs>>

\* ---------------------------------------------------------------- Destroy
\* Destroy with a load and a store in place of the compare-and-swap: every
\* call that does not see `unstart` goes on.
DestroyBegin_LoadStore(p) ==
  /\ CanCall(p)
  /\ calls' = CalledDestroy
  /\ IF state # unstart
     THEN /\ state' = destroyed
          /\ pc' = [pc EXCEPT ![p] = "d_proc"]
     ELSE UNCHANGED <<state, pc>>
  /\ UNCHANGED <<proxy, tableVars, chanVars, schedVars, version, arg, workerVars,
                 raced, fault, done, seqs>>

\* Destroy with a compare-and-swap that does not expect `started`: a call on
\* an actor that is not destroyed yet goes on.
DestroyBegin_AnyState(p) ==
  /\ CanCall(p)
  /\ calls' = CalledDestroy
  /\ IF state # destroyed
     THEN /\ state' = destroyed
          /\ pc' = [pc EXCEPT ![p] = "d_proc"]
     ELSE UNCHANGED <<state, pc>>
  /\ UNCHANGED <<proxy, tableVars, chanVars, schedVars, version, arg, workerVars,
                 raced, fault, done, seqs>>

\* actor.go:133-135: state.CompareAndSwap(started, destroyed).
DestroyBegin(p) ==
  /\ CanCall(p)
  /\ calls' = CalledDestroy
  /\ IF state = started
     THEN /\ state' = destroyed
          /\ pc' = [pc EXCEPT ![p] = "d_proc"]
     ELSE UNCHANGED <<state, pc>>
  /\ UNCHANGED <<proxy, tableVars, chanVars, schedVars, version, arg, workerVars,
                 raced, fault, done, seqs>>

\* actor.go:137: a.processor.Destroy()
DestroyProcessor(p) ==
  /\ Running
  /\ pc[p] = "d_proc"
  /\ done' = Bump("procDestroy")
  /\ pc' = [pc EXCEPT ![p] = "d_unbind"]
  /\ UNCHANGED <<proxy, state, tableVars, chanVars, schedVars, version, arg,
                 workerVars, raced, fault, calls, seqs>>

\* The Range callback returning false: only the first uid is unbound.
UnbindAll_First(a) ==
  [u \in Uids |->
     IF u \in binds[a] /\ (\A v \in binds[a] : u <= v)
     THEN [relations[u] EXCEPT ![Kind(a)] = NoEntry]
     ELSE relations[u]]

\* actor.go:140-143: for every uid of a.binds, delete(relations[uid], Kind).
UnbindAll(a) ==
  [u \in Uids |->
     IF u \in binds[a] THEN [relations[u] EXCEPT ![Kind(a)] = NoEntry]
     ELSE relations[u]]

\* actor.go:139-144: the batched unbind, one critical section of the
\* Scheduler.
DestroyUnbind(p) ==
  /\ Running
  /\ pc[p] = "d_unbind"
  /\ relations' = UnbindAll("A")
  /\ done' = Bump("unbind")
  /\ pc' = [pc EXCEPT ![p] = "d_lock"]
  /\ UNCHANGED <<proxy, state, tableVars, chanVars, binds, version, arg, workerVars,
                 raced, fault, calls, seqs>>

\* actor.go:146: a.rw.Lock() is called; from now on RLock blocks.
DestroyLock(p) ==
  /\ Running
  /\ pc[p] = "d_lock"
  /\ pc' = [pc EXCEPT ![p] = "d_wait"]
  /\ UNCHANGED <<proxy, state, tableVars, chanVars, schedVars, version, arg,
                 workerVars, raced, fault, calls, done, seqs>>

\* actor.go:146-149: rw.Lock() returns once no reader holds rw, then
\* close(a.mailbox).  Closing a closed channel panics.
DestroyCloseMailbox(p) ==
  /\ Running
  /\ pc[p] = "d_wait"
  /\ Readers = {}
  /\ IF mailboxClosed
     THEN /\ fault' = "close of closed channel"
          /\ UNCHANGED <<mailboxClosed, done, pc>>
     ELSE /\ mailboxClosed' = TRUE
          /\ done' = Bump("closeMailbox")
          /\ pc' = [pc EXCEPT ![p] = "d_closeF"]
          /\ UNCHANGED fault
  /\ UNCHANGED <<proxy, state, tableVars, mailbox, fnChan, fnClosed, schedVars,
                 version, arg, workerVars, raced, calls, seqs>>

\* actor.go:151-152: close(a.fnChan), the deferred rw.Unlock(), return.
DestroyCloseFn(p) ==
  /\ Running
  /\ pc[p] = "d_closeF"
  /\ IF fnClosed
     THEN /\ fault' = "close of closed channel"
          /\ UNCHANGED <<fnClosed, done, pc>>
     ELSE /\ fnClosed' = TRUE
          /\ done' = [done EXCEPT !.closeFn = @ + 1, !.destroyReturned = @ + 1]
          /\ pc' = [pc EXCEPT ![p] = "idle"]
          /\ UNCHANGED fault
  /\ UNCHANGED <<proxy, state, tableVars, mailbox, mailboxClosed, fnChan, schedVars,
                 version, arg, workerVars, raced, calls, seqs>>

\* --------------------------------------------------------- dispatch worker
\* The table a context is looked up in (actor.go:177-185).
CtxTable(c) == IF CtxKind(c) = "Event" THEN "events" ELSE "routes"

\* A receive that takes the newest buffered item.
Recv_Newest(ch) ==
  [item |-> ch[Len(ch)], rest |-> SubSeq(ch, 1, Len(ch) - 1)]

\* A receive on a buffered channel: the oldest item, and what stays buffered.
Recv(ch) == [item |-> Head(ch), rest |-> Tail(ch)]

\* actor.go:170-175: a context is received and its version loaded.
WorkerRecvMailbox ==
  /\ Running
  /\ wpc = "select"
  /\ mailbox # <<>>
  /\ LET m == Recv(mailbox).item IN
       /\ wCur' = [op |-> "msg", ctx |-> m.ctx, stamp |-> m.stamp, n |-> m.n,
                   version |-> version[m.ctx], handler |-> None,
                   hv |-> 0, superseded |-> FALSE, faulted |-> FALSE,
                   queuedAfter |-> \E i \in 1..Len(Recv(mailbox).rest) :
                                     Recv(mailbox).rest[i].ctx = m.ctx]
       /\ seqs' = [seqs EXCEPT !.deqM = m.n]
       /\ raced' = EnterAccess("worker", CtxTable(m.ctx))
  /\ mailbox' = Recv(mailbox).rest
  /\ wpc' = "lookup"
  /\ UNCHANGED <<proxy, state, tableVars, mailboxClosed, fnChan, fnClosed, schedVars,
                 version, pc, arg, fault, calls, done>>

\* What the lookup of a context's handler can return.
LookupResults(c) ==
  IF "worker" \in raced
  THEN (IF CtxKind(c) = "Event" THEN EventHandlers ELSE Handlers)
       \cup {None, "fatal"}
  ELSE {IF CtxKind(c) = "Event" THEN events[CtxKey(c)] ELSE routes[CtxKey(c)]}

\* actor.go:177-185: the handler is looked up; a found handler starts to run
\* (xcall.Call), a missing one is skipped.
WorkerLookup ==
  /\ Running
  /\ wpc = "lookup"
  /\ \E h \in LookupResults(wCur.ctx) :
       IF h = "fatal"
       THEN /\ fault' = "concurrent map access"
            /\ UNCHANGED <<wpc, wCur>>
       ELSE /\ wpc' = IF h = None THEN "defer" ELSE "handler"
            /\ wCur' = [wCur EXCEPT !.handler = h, !.hv = version[wCur.ctx]]
            /\ UNCHANGED fault
  /\ raced' = raced \ {"worker"}
  /\ UNCHANGED <<proxy, state, tableVars, chanVars, schedVars, version, pc, arg,
                 calls, done, seqs>>

\* actor.go:179, 183: the handler returns.
WorkerHandlerDone ==
  /\ Running
  /\ wpc = "handler"
  /\ wpc' = "defer"
  /\ wCur' = [wCur EXCEPT !.superseded = (version[wCur.ctx] # wCur.hv)]
  /\ UNCHANGED <<proxy, state, tableVars, chanVars, schedVars, version, pc, arg,
                 raced, fault, calls, done, seqs>>

\* A handler fault that nothing recovers: the process dies with the panic.
WorkerHandlerFault_Unrecovered ==
  /\ Running
  /\ wpc = "handler"
  /\ fault' = "handler panic"
  /\ wCur' = [wCur EXCEPT !.faulted = TRUE]
  /\ UNCHANGED <<proxy, state, tableVars, chanVars, schedVars, version, pc, arg,
                 wpc, raced, calls, done, seqs>>

\* actor.go:179, 183: the handler panics; xcall.Call recovers and logs the
\* panic and returns, so the worker goes on to the finalize step.
WorkerHandlerFault ==
  /\ Running
  /\ wpc = "handler"
  /\ wpc' = "defer"
  /\ wCur' = [wCur EXCEPT !.superseded = (version[wCur.ctx] # wCur.hv),
                          !.faulted = TRUE]
  /\ UNCHANGED <<proxy, state, tableVars, chanVars, schedVars, version, pc, arg,
                 raced, fault, calls, done, seqs>>

\* Context.compareVersionExecDefer / compareVersionRecycle: the action runs
\* only if the version given still equals the context's current version.
VersionIsCurrent(c, v) == version[c] = v

\* The worker comparing against a version it loads after the handler.
WorkerExecDefer_Reload ==
  /\ Running
  /\ wpc = "defer"
  /\ done' = IF VersionIsCurrent(wCur.ctx, version[wCur.ctx])
             THEN [done EXCEPT !.defers[wCur.ctx] = @ + 1]
             ELSE done
  /\ wpc' = "recycle"
  /\ UNCHANGED <<proxy, state, tableVars, chanVars, schedVars, version, pc, arg,
                 wCur, raced, fault, calls, seqs>>

\* actor.go:187: ctx.compareVersionExecDefer(version)
WorkerExecDefer ==
  /\ Running
  /\ wpc = "defer"
  /\ done' = IF VersionIsCurrent(wCur.ctx, wCur.version)
             THEN [done EXCEPT !.defers[wCur.ctx] = @ + 1]
             ELSE done
  /\ wpc' = "recycle"
  /\ UNCHANGED <<proxy, state, tableVars, chanVars, schedVars, version, pc, arg,
                 wCur, raced, fault, calls, seqs>>

\* actor.go:189: ctx.compareVersionRecycle(version)
WorkerRecycle ==
  /\ Running
  /\ wpc = "recycle"
  /\ done' = IF VersionIsCurrent(wCur.ctx, wCur.version)
             THEN [done EXCEPT !.recycles[wCur.ctx] = @ + 1]
             ELSE done
  /\ wpc' = "select"
  /\ wCur' = NoCur
  /\ UNCHANGED <<proxy, state, tableVars, chanVars, schedVars, version, pc, arg,
                 raced, fault, calls, seqs>>

\* actor.go:190-194: a callback is received and starts to run (xcall.Call).
WorkerRecvFn ==
  /\ Running
  /\ wpc = "select"
  /\ fnChan # <<>>
  /\ LET f == Recv(fnChan).item IN
       /\ wCur' = f
       /\ seqs' = [seqs EXCEPT !.deqF = f.n]
       /\ raced' = IF f.op = "invoke" THEN raced
                   ELSE EnterAccess("worker",
                          IF f.op = "route" THEN "routes" ELSE "events")
  /\ fnChan' = Recv(fnChan).rest
  /\ wpc' = "fn"
  /\ UNCHANGED <<proxy, state, tableVars, mailbox, mailboxClosed, fnClosed, schedVars,
                 version, pc, arg, fault, calls, done>>

\* actor.go:78-79, 96: the callback's body runs on the worker.
WorkerFnDone ==
  /\ Running
  /\ wpc = "fn"
  /\ \E o \in AccessOutcomes("worker") :
       /\ routes' = IF wCur.op = "route" /\ o = "applied"
                    THEN [routes EXCEPT ![wCur.key] = wCur.handler]
                    ELSE routes
       /\ events' = IF wCur.op = "event" /\ o = "applied"
                    THEN [events EXCEPT ![wCur.key] = wCur.handler]
                    ELSE events
       /\ schedRoutes' = IF wCur.op = "route" /\ o # "fatal"
                         THEN [schedRoutes EXCEPT ![wCur.key] = Kind("A")]
                         ELSE schedRoutes
       /\ fault' = IF o = "fatal" THEN "concurrent map access" ELSE fault
  /\ raced' = raced \ {"worker"}
  /\ wpc' = "select"
  /\ wCur' = NoCur
  /\ UNCHANGED <<proxy, state, chanVars, schedVars, version, pc, arg, calls, done,
                 seqs>>

\* actor.go:190-194: an Invoke callback panics; xcall.Call recovers and the
\* worker goes back to its select.
WorkerFnFault ==
  /\ Running
  /\ wpc = "fn"
  /\ wCur.op = "invoke"
  /\ wpc' = "select"
  /\ wCur' = NoCur
  /\ done' = [done EXCEPT !.fnFaults = 1]
  /\ UNCHANGED <<proxy, state, tableVars, chanVars, schedVars, version, pc, arg,
                 raced, fault, calls, seqs>>

\* actor.go:170-173: the mailbox is closed and drained: the worker returns.
WorkerExitMailbox ==
  /\ Running
  /\ wpc = "select"
  /\ mailboxClosed /\ mailbox = <<>>
  /\ wpc' = "exited"
  /\ UNCHANGED <<proxy, state, tableVars, chanVars, schedVars, version, pc, arg,
                 wCur, raced, fault, calls, done, seqs>>

\* actor.go:190-193: fnChan is closed and drained: the worker returns.
WorkerExitFn ==
  /\ Running
  /\ wpc = "select"
  /\ fnClosed /\ fnChan = <<>>
  /\ wpc' = "exited"
  /\ UNCHANGED <<proxy, state, tableVars, chanVars, schedVars, version, pc, arg,
                 wCur, raced, fault, calls, done, seqs>>

\* ---------------------------------------------------------- specification
Next ==
  \/ Start
  \/ \E p \in Procs, c \in Ctxs : NextBegin(p, c)
  \/ \E p \in Procs : NextSend(p)
  \/ \E p \in Procs : InvokeBegin(p)
  \/ \E p \in Procs : InvokeSend(p)
  \/ \E p \in Procs, r \in Routes, h \in Handlers : AddRouteHandlerBegin(p, r, h)
  \/ \E p \in Procs : AddRouteHandlerWrite(p)
  \/ \E p \in Procs : AddRouteHandlerSend(p)
  \/ \E p \in Procs, e \in Events, h \in EventHandlers :
       AddEventHandlerBegin(p, e, h)
  \/ \E p \in Procs : AddEventHandlerWrite(p)
  \/ \E p \in Procs : AddEventHandlerSend(p)
  \/ \E p \in Procs : DestroyBegin(p)
  \/ \E p \in Procs : DestroyProcessor(p)
  \/ \E p \in Procs : DestroyUnbind(p)
  \/ \E p \in Procs : DestroyLock(p)
  \/ \E p \in Procs : DestroyCloseMailbox(p)
  \/ \E p \in Procs : DestroyCloseFn(p)
  \/ WorkerRecvMailbox
  \/ WorkerLookup
  \/ WorkerHandlerDone
  \/ WorkerHandlerFault
  \/ WorkerExecDefer
  \/ WorkerRecycle
  \/ WorkerRecvFn
  \/ WorkerFnDone
  \/ WorkerFnFault
  \/ WorkerExitMailbox
  \/ WorkerExitFn

Spec == Init /\ [][Next]_vars

\* The steps of the worker goroutine (actor.go:166-198).
WorkerNext ==
  \/ WorkerRecvMailbox
  \/ WorkerLookup
  \/ WorkerHandlerDone
  \/ WorkerHandlerFault
  \/ WorkerExecDefer
  \/ WorkerRecycle
  \/ WorkerRecvFn
  \/ WorkerFnDone
  \/ WorkerFnFault
  \/ WorkerExitMailbox
  \/ WorkerExitFn

\* The worker is a goroutine of its own: while it can take a step it
\* eventually takes one (handlers and callbacks return or panic).
FairSpec == Spec /\ WF_vars(WorkerNext)

\* ------------------------------------------- Destroy called from a handler
\* actor.go:133-135, called from the handler the worker is running
\* (actor.go:179, 183): state.CompareAndSwap(started, destroyed).
HandlerDestroyBegin ==
  /\ Running
  /\ wpc = "handler"
  /\ IF state = started
     THEN /\ state' = destroyed
          /\ wpc' = "hd_proc"
     ELSE UNCHANGED <<state, wpc>>
  /\ UNCHANGED <<proxy, tableVars, chanVars, schedVars, version, pc, arg, wCur,
                 raced, fault, calls, done, seqs>>

\* actor.go:137-146 on the worker: processor.Destroy(), the batched unbind,
\* then rw.Lock() is called.
HandlerDestroyUnbind ==
  /\ Running
  /\ wpc = "hd_proc"
  /\ relations' = UnbindAll("A")
  /\ done' = [done EXCEPT !.procDestroy = @ + 1, !.unbind = @ + 1]
  /\ wpc' = "hd_wait"
  /\ UNCHANGED <<proxy, state, tableVars, chanVars, binds, version, pc, arg, wCur,
                 raced, fault, calls, seqs>>

\* actor.go:146-152 on the worker: rw.Lock() returns once no reader holds rw;
\* both channels are closed, rw is unlocked and Destroy returns into the
\* handler.
HandlerDestroyClose ==
  /\ Running
  /\ wpc = "hd_wait"
  /\ Readers = {}
  /\ IF mailboxClosed \/ fnClosed
     THEN /\ fault' = "close of closed channel"
          /\ UNCHANGED <<mailboxClosed, fnClosed, done, wpc>>
     ELSE /\ mailboxClosed' = TRUE
          /\ fnClosed' = TRUE
          /\ done' = [done EXCEPT !.closeMailbox = @ + 1, !.closeFn = @ + 1,
                                  !.destroyReturned = @ + 1]
          /\ wpc' = "handler"
          /\ UNCHANGED fault
  /\ UNCHANGED <<proxy, state, tableVars, mailbox, fnChan, schedVars, version, pc,
                 arg, wCur, raced, calls, seqs>>

\* The actor with handlers that may call Destroy on their own actor.
NextSelf ==
  \/ Start
  \/ \E p \in Procs, c \in Ctxs : NextBegin(p, c)
  \/ \E p \in Procs : NextSend(p)
  \/ \E p \in Procs : InvokeBegin(p)
  \/ \E p \in Procs : InvokeSend(p)
  \/ \E p \in Procs, r \in Routes, h \in Handlers : AddRouteHandlerBegin(p, r, h)
  \/ \E p \in Procs : AddRouteHandlerWrite(p)
  \/ \E p \in Procs : AddRouteHandlerSend(p)
  \/ \E p \in Procs : DestroyBegin(p)
  \/ \E p \in Procs : DestroyProcessor(p)
  \/ \E p \in Procs : DestroyUnbind(p)
  \/ \E p \in Procs : DestroyLock(p)
  \/ \E p \in Procs : DestroyCloseMailbox(p)
  \/ \E p \in Procs : DestroyCloseFn(p)
  \/ WorkerNext
  \/ HandlerDestroyBegin
  \/ HandlerDestroyUnbind
  \/ HandlerDestroyClose

SpecSelf == Init /\ [][NextSelf]_vars

\* Three callers of Next, Invoke and Destroy on one actor.
NextBlock ==
  \/ Start
  \/ \E p \in Callers, c \in Ctxs : NextBegin(p, c)
  \/ \E p \in Callers : NextSend(p)
  \/ \E p \in Callers : InvokeBegin(p)
  \/ \E p \in Callers : InvokeSend(p)
  \/ \E p \in Callers : DestroyBegin(p)
  \/ \E p \in Callers : DestroyProcessor(p)
  \/ \E p \in Callers : DestroyUnbind(p)
  \/ \E p \in Callers : DestroyLock(p)
  \/ \E p \in Callers : DestroyCloseMailbox(p)
  \/ \E p \in Callers : DestroyCloseFn(p)
  \/ WorkerRecvMailbox
  \/ WorkerLookup
  \/ WorkerExecDefer
  \/ WorkerRecycle
  \/ WorkerRecvFn
  \/ WorkerFnDone
  \/ WorkerExitMailbox
  \/ WorkerExitFn

SpecBlock == Init /\ [][NextBlock]_vars

\* ------------------------------------------------- Scheduler bind / unbind
\* actor.go:155-157: a.binds.Store(uid, struct{}{})
bindUser(a, uid) == [binds EXCEPT ![a] = @ \cup {uid}]

\* actor.go:160-163: a.binds.LoadAndDelete(uid); reports whether uid was there.
unbindUser(a, uid) == [ok |-> uid \in binds[a], binds |-> [binds EXCEPT ![a] = @ \ {uid}]]

\* Scheduler: bind uid to actor a.  The relation entry (uid, kind of a) is
\* overwritten and a records the uid.  `born` notes whether the entry was
\* written before ("pre") or after ("post") A's Destroy moved the state.
BindActor(uid, a) ==
  /\ Running
  /\ binds' = bindUser(a, uid)
  /\ relations' = [relations EXCEPT ![uid][Kind(a)] =
                     [actor |-> a,
                      born |-> IF state = destroyed THEN "post" ELSE "pre"]]
  /\ UNCHANGED <<proxy, state, tableVars, chanVars, version, pc, arg, workerVars,
                 raced, fault, calls, done, seqs>>

\* Scheduler: unbind uid from the actor of kind k it is bound to.
UnbindActor(uid, k) ==
  /\ Running
  /\ relations[uid][k] # NoEntry
  /\ LET r == unbindUser(relations[uid][k].actor, uid) IN
       /\ r.ok
       /\ binds' = r.binds
       /\ relations' = [relations EXCEPT ![uid][k] = NoEntry]
  /\ UNCHANGED <<proxy, state, tableVars, chanVars, version, pc, arg, workerVars,
                 raced, fault, calls, done, seqs>>

\* The lifecycle of A together with the Scheduler's bind and unbind.
NextBind ==
  \/ Start
  \/ \E u \in Uids, a \in Actors : BindActor(u, a)
  \/ \E u \in Uids, k \in Kinds : UnbindActor(u, k)
  \/ \E p \in Procs : DestroyBegin(p)
  \/ \E p \in Procs : DestroyProcessor(p)
  \/ \E p \in Procs : DestroyUnbind(p)
  \/ \E p \in Procs : DestroyLock(p)
  \/ \E p \in Procs : DestroyCloseMailbox(p)
  \/ \E p \in Procs : DestroyCloseFn(p)

SpecBind == Init /\ [][NextBind]_vars

\* ------------------------------------------------------------------- Proxy
NodeIds == {"n1", "n2"}           \* node ids (Node.opts.id)
GateIds == {"g1"}                 \* gateway ids
MsgSeqs == {1, 2}                 \* Message.Seq values
MsgRoutes == {10, 20}             \* Message.Route values
LinkResults == {"nil", "link error"}   \* what a call of the Link returns

\* The attribution of a Request and the message it carries.
Requests ==
  [gid : GateIds \cup {""}, nid : NodeIds \cup {""}, cid : {7}, uid : Uids,
   seq : MsgSeqs, route : MsgRoutes]

\* cluster.DeliverArgs
DeliverArgs ==
  [nid : NodeIds \cup {""}, uid : Uids, seq : MsgSeqs, route : MsgRoutes]

\* What a call did: its calls of the Link, its calls of the local router,
\* and the error it returned.
NoCalls == [link |-> <<>>, local |-> <<>>, err |-> "nil"]

\* Response deciding by the origin node id first.
Response_NodeFirst(req, ret) ==
  IF req.nid # ""
  THEN [NoCalls EXCEPT
          !.link = <<[call |-> "Deliver", nid |-> req.nid, uid |-> req.uid,
                      seq |-> req.seq, route |-> req.route]>>,
          !.err = ret]
  ELSE IF req.gid # ""
  THEN [NoCalls EXCEPT
          !.link = <<[call |-> "Push", gid |-> req.gid, kind |-> "Conn",
                      target |-> req.cid, seq |-> req.seq,
                      route |-> req.route]>>,
          !.err = ret]
  ELSE NoCalls

\* proxy.go:174-200: Proxy.Response; ret is what the Link call returns.
Response(req, ret) ==
  IF req.gid # ""
  THEN [NoCalls EXCEPT
          !.link = <<[call |-> "Push", gid |-> req.gid, kind |-> "Conn",
                      target |-> req.cid, seq |-> req.seq,
                      route |-> req.route]>>,
          !.err = ret]
  ELSE IF req.nid # ""
  THEN [NoCalls EXCEPT
          !.link = <<[call |-> "Deliver", nid |-> req.nid, uid |-> req.uid,
                      seq |-> req.seq, route |-> req.route]>>,
          !.err = ret]
  ELSE NoCalls

\* Deliver that resolves locally as well as forwarding.
Deliver_AlsoLocal(node, args, ret) ==
  [link |-> IF args.nid # node
            THEN <<[call |-> "Deliver", nid |-> args.nid, uid |-> args.uid,
                    seq |-> args.seq, route |-> args.route]>>
            ELSE <<>>,
   local |-> <<[gid |-> "", nid |-> args.nid, cid |-> 0, uid |-> args.uid,
                seq |-> args.seq, route |-> args.route]>>,
   err |-> IF args.nid # node THEN ret ELSE "nil"]

\* proxy.go:159-171: Proxy.Deliver on the node whose id is `node`
\* (GetNodeID, proxy.go:29-31); ret is what the Link call returns.
Deliver(node, args, ret) ==
  IF args.nid # node
  THEN [NoCalls EXCEPT
          !.link = <<[call |-> "Deliver", nid |-> args.nid, uid |-> args.uid,
                      seq |-> args.seq, route |-> args.route]>>,
          !.err = ret]
  ELSE [NoCalls EXCEPT
          !.local = <<[gid |-> "", nid |-> args.nid, cid |-> 0,
                       uid |-> args.uid, seq |-> args.seq,
                       route |-> args.route]>>]

\* A call of Response or of Deliver with its arguments, on some node.
InitProxy ==
  /\ InitActor
  /\ proxy \in
       [op : {"Response"}, node : NodeIds, in : Requests, ret : {"nil"},
        returned : {FALSE}, out : {NoCalls}]
       \cup
       [op : {"Deliver"}, node : NodeIds, in : DeliverArgs, ret : {"nil"},
        returned : {FALSE}, out : {NoCalls}]

actorVars ==
  <<state, tableVars, chanVars, schedVars, version, pc, arg, workerVars,
    raced, fault, calls, done, seqs>>

ProxyResponse ==
  /\ proxy.op = "Response"
  /\ ~proxy.returned
  /\ \E ret \in LinkResults :
       proxy' = [proxy EXCEPT !.ret = ret, !.returned = TRUE,
                              !.out = Response(proxy.in, ret)]
  /\ UNCHANGED actorVars

ProxyDeliver ==
  /\ proxy.op = "Deliver"
  /\ ~proxy.returned
  /\ \E ret \in LinkResults :
       proxy' = [proxy EXCEPT !.ret = ret, !.returned = TRUE,
                              !.out = Deliver(proxy.node, proxy.in, ret)]
  /\ UNCHANGED actorVars

NextProxy ==
  \/ ProxyResponse
  \/ ProxyDeliver

SpecProxy == InitProxy /\ [][NextProxy]_vars

\* ================================================================= claims
DestroyersIdle ==
  \A p \in Callers : pc[p] \notin {"d_proc", "d_unbind", "d_lock", "d_wait", "d_closeF"}

\* C1: a route or event handler starts executing only while the actor's state
\* is `started`; no queued message is dispatched to a handler after Destroy
\* has moved the state to `destroyed`.  (Stated for the dispatches whose table
\* lookup raced with no other access, so that the handler is a registered one.)
C1_HandlerOnlyWhileStarted ==
  [][(wpc = "lookup" /\ wpc' = "handler" /\ raced = {}) => state = started]_vars

\* C2: no call ever sends on a closed mailbox or control queue, and a call of
\* Next, Invoke, AddRouteHandler or AddEventHandler that begins in state
\* `destroyed` enqueues nothing, mutates no table and returns at once.
C2_NoSendOnClosedNoLateEffect ==
  /\ [](fault # "send on closed channel")
  /\ [][(calls'.n # calls.n /\ calls'.destroy = calls.destroy
         /\ state = destroyed)
        => UNCHANGED <<mailbox, fnChan, routes, events, schedRoutes, version,
                       pc>>]_vars

\* C2 witness: a Next was enqueued, the one Destroy call closed both channels
\* and another call began after the state was `destroyed`, without a fault.
C2_Witness ==
  /\ calls.late /\ calls.destroy = 1 /\ fnClosed /\ mailboxClosed
  /\ seqs.enqM > 0 /\ fault = None

\* C3: Destroy is idempotent: over any number of sequential or concurrent
\* Destroy calls the processor cleanup, the batched unbind and the close of
\* each channel run at most once, and exactly once when the actor is destroyed
\* and every Destroy call has returned.
C3_DestroyIdempotent ==
  /\ done.procDestroy <= 1 /\ done.unbind <= 1
  /\ done.closeMailbox <= 1 /\ done.closeFn <= 1
  /\ fault # "close of closed channel"
  /\ (state = destroyed /\ DestroyersIdle /\ Running)
       => /\ done.procDestroy = 1 /\ done.unbind = 1
          /\ done.closeMailbox = 1 /\ done.closeFn = 1
          /\ mailboxClosed /\ fnClosed

\* C3 witness: only Destroy was called, at least twice, one of the calls began
\* when the state was already `destroyed`, and all have returned.
C3_Witness ==
  /\ calls.destroy >= 2 /\ calls.n = calls.destroy /\ calls.late
  /\ state = destroyed /\ DestroyersIdle /\ done.closeFn = 1

\* C4: versions stamped by successive deliveries of a context increase, and
\* when the worker dispatches a delivery that was superseded before it was
\* dequeued (a later delivery of the same context was already accepted and
\* waiting in the mailbox), its finalize and recycle steps are skipped.
C4_SupersededBeforeDequeueSkipped ==
  [][/\ \A c \in Ctxs : version'[c] >= version[c]
     /\ (wpc \in {"defer", "recycle"} /\ wCur.queuedAfter
         /\ wCur.stamp < wCur.version)
          => (done'.defers = done.defers /\ done'.recycles = done.recycles)]_vars

\* C5: if Next(ctx) is accepted again while the worker executes a handler for
\* an earlier delivery of ctx, the handler still runs to completion, and the
\* worker then runs neither the deferred-completion callback nor the recycle
\* step for the superseded delivery.
C5_SupersededInHandlerSkipped ==
  [][/\ (wpc = "handler" => wpc' \in {"handler", "defer"})
     /\ (wpc \in {"defer", "recycle"} /\ wCur.superseded)
          => (done'.defers = done.defers /\ done'.recycles = done.recycles)]_vars

\* C5 witness: the handler of a delivery that was superseded while it ran has
\* returned and the worker has passed the finalize step.
C5_Witness == wpc = "recycle" /\ wCur.superseded /\ wCur.handler # None

\* C6: the state only moves unstart -> started -> destroyed: never back,
\* never from unstart to destroyed, never out of destroyed.
C6_StateForward ==
  [][\/ state' = state
     \/ (state = unstart /\ state' = started)
     \/ (state = started /\ state' = destroyed)]_vars

\* C6 witness: two Destroy calls, neither begun in `destroyed`, so that one of
\* them was made on the unstarted actor; the actor was then started and
\* destroyed.
C6_Witness ==
  /\ calls.destroy >= 2 /\ ~calls.late /\ state = destroyed /\ DestroyersIdle

\* C7: when Destroy of A returns, no relation entry (uid, kind) refers to A,
\* whatever bind and unbind operations ran before or during the Destroy.
C7_NoEntryAfterDestroy ==
  [][done'.destroyReturned > done.destroyReturned
     => \A u \in Uids : relations'[u][Kind("A")].actor # "A"]_vars

\* C8: within Destroy the processor cleanup comes first, then the batched
\* unbind, then the close of the channels; no channel is closed while a
\* relation entry written before the Destroy is left for a uid of A's bind set.
C8_UnbindBeforeClose ==
  /\ done.unbind >= 1 => done.procDestroy >= 1
  /\ (mailboxClosed \/ fnClosed) => done.unbind >= 1
  /\ (mailboxClosed \/ fnClosed)
       => \A u \in binds["A"] : relations[u][Kind("A")].born # "pre"

\* C8 witness: A was bound to both uids and to no other actor's uid set, and
\* its channels are closed with both entries gone.
C8_Witness ==
  /\ mailboxClosed /\ fnClosed
  /\ binds["A"] = Uids /\ binds["B"] = {} /\ binds["D"] = {}
  /\ \A u \in Uids : relations[u][Kind("A")] = NoEntry

\* C9: at most one thread at a time is inside an access of the route table,
\* and of the event table, in every lifecycle state.
C9_SingleAccessor ==
  \A t \in {"routes", "events"} : Cardinality(TableAccessors(t)) <= 1

C11_FaultContained ==
  /\ [][/\ (wpc = "handler" /\ wCur'.faulted)
            => (wpc' = "defer" /\ fault' = fault /\ UNCHANGED <<state, chanVars>>)
        /\ (wpc = "defer" /\ wpc' # wpc /\ wCur.faulted)
            => /\ wpc' = "recycle"
               /\ done'.defers[wCur.ctx] = done.defers[wCur.ctx]
                    + (IF version[wCur.ctx] = wCur.version THEN 1 ELSE 0)
        /\ (wpc = "recycle" /\ wpc' # wpc /\ wCur.faulted)
            => /\ wpc' = "select"
               /\ done'.recycles[wCur.ctx] = done.recycles[wCur.ctx]
                    + (IF version[wCur.ctx] = wCur.version THEN 1 ELSE 0)
        /\ done'.fnFaults # done.fnFaults
            => (wpc' = "select" /\ fault' = fault /\ UNCHANGED <<state, chanVars>>)
        /\ (wpc' = "exited" /\ wpc # "exited")
            => /\ wpc = "select"
               /\ (mailboxClosed /\ mailbox = <<>>) \/ (fnClosed /\ fnChan = <<>>)
       ]_vars
  /\ (wpc \in {"defer", "recycle"} /\ wCur.faulted)
       ~> (wpc = "select" \/ ~Running)
  /\ \A n \in 1..MaxCalls :
       (wpc \in {"defer", "recycle"} /\ wCur.faulted
        /\ mailbox # <<>> /\ Head(mailbox).n = n)
         ~> (seqs.deqM >= n \/ fnClosed \/ ~Running)

\* C11 witness: an Invoke callback has panicked, then the handler of the
\* first delivery of a context panicked; the actor is still started, the
\* finalize step of the faulted context has run and a later context waits.
C11_Witness ==
  /\ done.fnFaults = 1 /\ state = started /\ fault = None
  /\ wpc = "recycle" /\ wCur.faulted /\ wCur.version = 1
  /\ done.defers[wCur.ctx] = 1 /\ mailbox # <<>>

\* C12: with route r registered to a handler before start (and never
\* registered again), every Next(ctx) with ctx.route = r that was accepted on
\* the started actor and not delivered again leads to the handler being
\* invoked with ctx, then to ctx's finalize and recycle steps.  Stated on the
\* runs that end: once the worker has returned, no such delivery is left in
\* the mailbox, where nothing will ever dispatch it.
C12_AcceptedRouteIsHandled ==
  (wpc = "exited" /\ calls.ready)
    => \A i \in 1..Len(mailbox) :
         ~(/\ CtxKind(mailbox[i].ctx) = "Message"
           /\ schedRoutes[CtxKey(mailbox[i].ctx)] = None
           /\ version[mailbox[i].ctx] = mailbox[i].stamp)

\* C13: an Invoke callback never starts to execute once the actor's state is
\* `destroyed`, callbacks accepted before the Destroy included; and an Invoke
\* call on an actor that is not started enqueues nothing.
C13_NoCallbackOnceDestroyed ==
  [][/\ (wpc = "select" /\ wpc' = "fn" /\ wCur'.op = "invoke")
          => state # destroyed
     /\ (calls'.n # calls.n /\ state # started) => fnChan' = fnChan]_vars

\* A caller between RLock and RUnlock can take its next step.
ReaderCanStep(p) ==
  ENABLED (\/ NextSend(p) \/ InvokeSend(p)
           \/ AddRouteHandlerWrite(p) \/ AddRouteHandlerSend(p)
           \/ AddEventHandlerWrite(p) \/ AddEventHandlerSend(p))

\* C14: every Destroy call returns, also one made from a handler on the
\* actor's own worker while callers are blocked in Next or Invoke on a full
\* channel.  Stated on finite runs: while a Destroy call waits in rw.Lock()
\* for the readers of rw, some reader can take its next step or the worker can
\* take one to drain a channel (otherwise no step can ever free the lock).
\* (Stated for the actors whose registrations had all returned at start.)
C14_DestroyReturns ==
  (Running /\ calls.ready /\ WriterPending /\ Readers # {})
    => \/ \E p \in Readers : ReaderCanStep(p)
       \/ ENABLED WorkerNext

\* C15: Invoke, Next, AddRouteHandler and AddEventHandler block their caller
\* only when the channel they send to is full.  Stated for Invoke: while the
\* control queue is open with free capacity and the only holders of rw are
\* callers blocked in Next on the full mailbox, a new Invoke gets past its
\* rw.RLock() without waiting.
C15_BlocksOnlyOnFullTarget ==
  (/\ Running
   /\ ~fnClosed /\ Len(fnChan) < FnChanCap
   /\ Len(mailbox) = MailboxCap
   /\ \A p \in Callers : pc[p] \in {"idle", "next_send", "d_wait"}
   /\ Readers # {})
    => CanRLock

\* C16: the AddRouteHandler calls made on a started actor are applied to the
\* route table by the worker, in the order of their submission: the worker
\* takes the registrations in queue order, each one it applies sets the
\* route's handler and stores route -> kind in the Scheduler's route table,
\* once a registration was applied for a route only the worker applying the
\* next one changes the route's handler, and a message dispatched for the
\* route gets the handler the table holds, the one last applied.
C16_RegistrationsAppliedInOrder ==
  [][/\ seqs'.deqF \in {seqs.deqF, seqs.deqF + 1}
     /\ (wpc = "fn" /\ wpc' = "select" /\ wCur.op = "route")
          => /\ routes'[wCur.key] = wCur.handler
             /\ schedRoutes'[wCur.key] = Kind("A")
     /\ \A r \in Routes :
          (schedRoutes[r] # None /\ routes'[r] # routes[r])
            => (wpc = "fn" /\ wpc' = "select" /\ wCur.op = "route")
     /\ (/\ wpc = "lookup" /\ wpc' # wpc /\ CtxKind(wCur.ctx) = "Message"
         /\ schedRoutes[CtxKey(wCur.ctx)] # None)
          => wCur'.handler = routes[CtxKey(wCur.ctx)]]_vars

\* C17: Response sends the reply by the request's attribution: with a
\* gateway id it makes exactly one Link push, to that gateway and connection,
\* and no deliver, also when the node id is set too; with no gateway id and a
\* node id it makes exactly one Link deliver, to that node and user, and no
\* push; with neither it calls nothing and returns no error.  The reply
\* carries the request's sequence number and route.
C17_ResponseByAttribution ==
  (proxy.op = "Response" /\ proxy.returned) =>
    LET r == proxy.in
        o == proxy.out
    IN /\ o.local = <<>>
       /\ r.gid # ""
            => /\ Len(o.link) = 1
               /\ o.link[1] = [call |-> "Push", gid |-> r.gid, kind |-> "Conn",
                               target |-> r.cid, seq |-> r.seq,
                               route |-> r.route]
       /\ (r.gid = "" /\ r.nid # "")
            => /\ Len(o.link) = 1
               /\ o.link[1] = [call |-> "Deliver", nid |-> r.nid,
                               uid |-> r.uid, seq |-> r.seq,
                               route |-> r.route]
       /\ (r.gid = "" /\ r.nid = "") => (o.link = <<>> /\ o.err = "nil")

\* C17 witness: a request with both a gateway id and a node id was answered
\* by a push.
C17_Witness ==
  /\ proxy.op = "Response" /\ proxy.returned
  /\ proxy.in.gid # "" /\ proxy.in.nid # ""
  /\ Len(proxy.out.link) = 1 /\ proxy.out.link[1].call = "Push"

\* C18: Deliver to the local node's id never calls the Link and makes
\* exactly one local route resolution; to any other node id it makes exactly
\* one Link deliver, no local resolution, and returns the Link's error
\* unchanged.
C18_DeliverLocalOrLink ==
  (proxy.op = "Deliver" /\ proxy.returned) =>
    LET a == proxy.in
        o == proxy.out
    IN /\ a.nid = proxy.node
            => /\ o.link = <<>>
               /\ o.local = <<[gid |-> "", nid |-> a.nid, cid |-> 0,
                               uid |-> a.uid, seq |-> a.seq,
                               route |-> a.route]>>
       /\ a.nid # proxy.node
            => /\ o.link = <<[call |-> "Deliver", nid |-> a.nid,
                              uid |-> a.uid, seq |-> a.seq,
                              route |-> a.route]>>
               /\ o.local = <<>>
               /\ o.err = proxy.ret

\* C18 witness: a Deliver to another node returned the error of the Link.
C18_Witness ==
  /\ proxy.op = "Deliver" /\ proxy.returned
  /\ proxy.in.nid # proxy.node /\ proxy.out.err = "link error"
  /\ proxy.out.local = <<>>

\* C19: no accepted context is lost at shutdown: when the worker loop has
\* terminated, every context that was enqueued on the mailbox has been
\* dequeued (and so went through the finalize and recycle steps), whatever
\* the control queue held when it was closed.
C19_NoContextLostAtShutdown ==
  wpc = "exited" => (mailbox = <<>> /\ seqs.deqM = seqs.enqM)

\* C20: the batched unbind of Destroy of A changes the relation table only
\* in entries that refer to A: an entry (uid, kind of A) that was overwritten
\* to refer to another actor, the uid being still in A's bind set, is left
\* as it is.
C20_DestroyUnbindsOnlyOwn ==
  [][done'.unbind > done.unbind
     => \A u \in Uids, k \in Kinds :
          relations[u][k].actor # "A" => relations'[u][k] = relations[u][k]]_vars

====
